---------------------------- MODULE Spec2Model ----------------------------
(***************************************************************************)
(* A model of libfreerdp/codec/dsp.c: the PCM resampler, the IMA/DVI and   *)
(* Microsoft ADPCM codecs, and the encode / decode / context_reset /       *)
(* supports_format dispatch of a FREERDP_DSP_CONTEXT.                      *)
(*                                                                         *)
(* Modelled build: no WITH_DSP_FFMPEG (under it every entry point is       *)
(* delegated to dsp_ffmpeg.c), little-endian, 32-bit int, two's complement *)
(* conversions.  The other build switches are the state variable `build`. *)
(***************************************************************************)
EXTENDS Integers, Sequences, FiniteSets, TLC

VARIABLES
    build,      \* compile-time switches: [gsm, lame, faad, faac, experimental]
    alive,      \* FALSE once a context exists no more (no context created)
    encoder,    \* context->encoder
    format,     \* context->format
    adpcm,      \* context->adpcm, the storage of union _ADPCM
    buffer,     \* context->buffer   (wStream: capacity)
    resample,   \* context->resample (wStream: data up to its position, capacity)
    ext,        \* external codec handles and flags: [faadSetup, faac]
    out,        \* the caller's output wStream: data up to its position, capacity
    call,       \* the last call made: operation, arguments, return value
    obs,        \* what the last call did on its way (table indexes, header loads, ...)
    ncalls      \* number of calls made so far

vars == <<build, alive, encoder, format, adpcm, buffer, resample, ext, out, call, obs, ncalls>>

ctxvars == <<encoder, format, adpcm, buffer, resample, ext>>

(***************************************************************************)
(* C integer arithmetic                                                    *)
(***************************************************************************)
Abs(x) == IF x < 0 THEN -x ELSE x

\* C division and remainder: truncation toward zero
CDiv(a, b) == IF (a < 0) = (b < 0) THEN Abs(a) \div Abs(b) ELSE -(Abs(a) \div Abs(b))

CMod(a, b) == a - b * CDiv(a, b)

\* conversion of an integer to UINT16 / INT16 / BYTE
U16(x) == x % 65536

S16(x) == IF x % 65536 >= 32768 THEN (x % 65536) - 65536 ELSE x % 65536

U8(x) == x % 256

\* the two 16-bit halves of an INT32 and the INT32 made of two halves
Lo16(x) == x % 65536

Hi16(x) == (x \div 65536) % 65536

MkS32(lo, hi) == S16(hi) * 65536 + lo

\* a 16-bit little-endian read at byte offset off (0-based) of sequence s
RdS16(s, off) == S16(s[off + 1] + 256 * s[off + 2])

\* the two bytes of a 16-bit little-endian write
Wr16(x) == <<U16(x) % 256, U16(x) \div 256>>

\* n zero bytes
Zeros(n) == [k \in 1..n |-> 0]

Min(a, b) == IF a < b THEN a ELSE b

Max(a, b) == IF a > b THEN a ELSE b

INT32_MAX == 2147483647

(***************************************************************************)
(* union _ADPCM: one storage, two views.                                   *)
(*   bytes 0..1   ima.last_sample[0]  = ms.predictor[0], ms.predictor[1]   *)
(*   bytes 2..3   ima.last_sample[1]  = (padding of ms)                    *)
(*   bytes 4..7   ima.last_step[0..1] = ms.delta[0]                        *)
(*   bytes 8..11                        ms.delta[1]                        *)
(*   bytes 12..27                       ms.sample1[0..1], ms.sample2[0..1] *)
(* h0, h1 hold bytes 0..1 and 2..3 as unsigned 16-bit values; d0, d1 and   *)
(* the samples are INT32.  Channels are 0 and 1; tuples are indexed ch+1.  *)
(***************************************************************************)
ZeroAdpcm == [h0 |-> 0, h1 |-> 0, d0 |-> 0, d1 |-> 0,
              sample1 |-> <<0, 0>>, sample2 |-> <<0, 0>>]

ima_last_sample(a, ch) == IF ch = 0 THEN S16(a.h0) ELSE S16(a.h1)

ima_last_step(a, ch) == IF ch = 0 THEN S16(Lo16(a.d0)) ELSE S16(Hi16(a.d0))

set_ima(a, ch, sample, step) ==
    IF ch = 0
    THEN [a EXCEPT !.h0 = U16(sample), !.d0 = MkS32(U16(step), Hi16(a.d0))]
    ELSE [a EXCEPT !.h1 = U16(sample), !.d0 = MkS32(Lo16(a.d0), U16(step))]

ms_predictor(a, ch) == IF ch = 0 THEN a.h0 % 256 ELSE a.h0 \div 256

ms_delta(a, ch) == IF ch = 0 THEN a.d0 ELSE a.d1

set_ms_predictor(a, ch, p) ==
    IF ch = 0
    THEN [a EXCEPT !.h0 = (a.h0 \div 256) * 256 + p]
    ELSE [a EXCEPT !.h0 = p * 256 + (a.h0 % 256)]

set_ms_delta(a, ch, d) == IF ch = 0 THEN [a EXCEPT !.d0 = d] ELSE [a EXCEPT !.d1 = d]

set_ms(a, ch, s1, s2, d) ==
    [set_ms_delta(a, ch, d) EXCEPT !.sample1[ch + 1] = s1, !.sample2[ch + 1] = s2]

(***************************************************************************)
(* IMA / DVI ADPCM: tables and the per-sample steps                        *)
(***************************************************************************)
ima_step_index_table ==
    <<-1, -1, -1, -1, 2, 4, 6, 8, -1, -1, -1, -1, 2, 4, 6, 8>>

ima_step_size_table ==
    <<7, 8, 9, 10, 11, 12, 13, 14, 16, 17,
      19, 21, 23, 25, 28, 31, 34, 37, 41, 45,
      50, 55, 60, 66, 73, 80, 88, 97, 107, 118,
      130, 143, 157, 173, 190, 209, 230, 253, 279, 307,
      337, 371, 408, 449, 494, 544, 598, 658, 724, 796,
      876, 963, 1060, 1166, 1282, 1411, 1552, 1707, 1878, 2066,
      2272, 2499, 2749, 3024, 3327, 3660, 4026, 4428, 4871, 5358,
      5894, 6484, 7132, 7845, 8630, 9493, 10442, 11487, 12635, 13899,
      15289, 16818, 18500, 20350, 22385, 24623, 27086, 29794, 32767>>

\* ima_step_size_table[i]; outside 0..88 the read is out of bounds and yields
\* whatever INT16 lies there: ub
ima_step_size(i, ub) == IF i \in 0..88 THEN ima_step_size_table[i + 1] ELSE S16(ub)

Clamp16(d) == IF d < -32768 THEN -32768 ELSE IF d > 32767 THEN 32767 ELSE d

\* last_step after its update, left as the update stored it
ImaKeepStep(s) == s

\* the clamp of last_step after its update, on the INT16 the update stored
ImaClampStep(s) == IF s < 0 THEN 0 ELSE IF s > 88 THEN 88 ELSE s

ima_update_step(a, ch, code) == ImaClampStep(S16(ima_last_step(a, ch) + ima_step_index_table[code + 1]))

\* the difference a code stands for at step size ss: lines 194-206
ImaDecodeDiff(ss, sample) ==
    LET d == (ss \div 8) + (IF sample % 2 = 1 THEN ss \div 4 ELSE 0)
                         + (IF (sample \div 2) % 2 = 1 THEN ss \div 2 ELSE 0)
                         + (IF (sample \div 4) % 2 = 1 THEN ss ELSE 0)
    IN  IF (sample \div 8) % 2 = 1 THEN -d ELSE d

\* dsp_decode_ima_adpcm_sample: the new storage, the UINT16 returned and the
\* index the step size table was read at
dsp_decode_ima_adpcm_sample(a, channel, sample, ub) ==
    LET Store(d) == [adpcm   |-> set_ima(a, channel, d, ima_update_step(a, channel, sample)),
                     decoded |-> U16(d),
                     index   |-> ima_last_step(a, channel)]
    IN  Store(Clamp16(ImaDecodeDiff(ima_step_size(ima_last_step(a, channel), ub), sample)
                      + ima_last_sample(a, channel)))

\* a comparison that sets the bit and leaves e as it was
ImaQuantKeepsError(q, ss, bit) == IF q.e >= ss THEN [q EXCEPT !.enc = q.enc + bit] ELSE q

\* one comparison of the quantizer, q is [e, enc]: lines 567-571, 575-579, 583-587
ImaQuantStep(q, ss, bit) == IF q.e >= ss THEN [e |-> q.e - ss, enc |-> q.enc + bit] ELSE q

\* the code of difference d at step size ss and what is left of |d|: lines 559-587
ImaQuantize(d, ss) ==
    ImaQuantStep(ImaQuantStep(ImaQuantStep([e |-> Abs(d), enc |-> IF d < 0 THEN 8 ELSE 0],
                                           ss, 4),
                              ss \div 2, 2),
                 (ss \div 2) \div 2, 1)

\* dsp_encode_ima_adpcm_sample: the new storage, the code returned and the index
\* the step size table was read at
dsp_encode_ima_adpcm_sample(a, channel, sample, ub) ==
    LET Store(d, ss, q) ==
            [adpcm |-> set_ima(a, channel,
                               Clamp16((IF d < 0 THEN d + q.e - (ss \div 8) ELSE d - q.e + (ss \div 8))
                                       + ima_last_sample(a, channel)),
                               ima_update_step(a, channel, q.enc)),
             enc   |-> q.enc,
             index |-> ima_last_step(a, channel)]
        Quant(d, ss) == Store(d, ss, ImaQuantize(d, ss))
    IN  Quant(sample - ima_last_sample(a, channel),
              ima_step_size(ima_last_step(a, channel), ub))

(***************************************************************************)
(* Microsoft ADPCM: tables and the per-sample steps                        *)
(***************************************************************************)
ms_adpcm_adaptation_table ==
    <<230, 230, 230, 230, 307, 409, 512, 614, 768, 614, 512, 409, 307, 230, 230, 230>>

ms_adpcm_coeffs1 == <<256, 512, 0, 192, 240, 460, 392>>

ms_adpcm_coeffs2 == <<0, -256, 0, 64, 0, -208, -232>>

\* ms_adpcm_coeffs1[p], ms_adpcm_coeffs2[p]; outside 0..6 the read is out of
\* bounds and yields whatever INT32 lies there: ub
ms_coeff1(p, ub) == IF p \in 0..6 THEN ms_adpcm_coeffs1[p + 1] ELSE ub

ms_coeff2(p, ub) == IF p \in 0..6 THEN ms_adpcm_coeffs2[p + 1] ELSE ub

\* whether the int product a * b, or the int sum a + b, leaves the INT32 range
MulOverflows(a, b) == a # 0 /\ b # 0 /\ Abs(b) > INT32_MAX \div Abs(a)

AddOverflows(a, b) ==
    \/ (a > 0 /\ b > INT32_MAX - a)
    \/ (a < 0 /\ b < (-INT32_MAX) - a)

\* a * b and a + b in int; a signed overflow is undefined: ub stands for its result
IMul(a, b, ub) == IF MulOverflows(a, b) THEN ub ELSE a * b

IAdd(a, b, ub) == IF AddOverflows(a, b) THEN ub ELSE a + b

\* the prediction both steps start from
ms_presample(a, channel, ub) ==
    CDiv(IAdd(IMul(a.sample1[channel + 1], ms_coeff1(ms_predictor(a, channel), ub), ub),
              IMul(a.sample2[channel + 1], ms_coeff2(ms_predictor(a, channel), ub), ub), ub),
         256)

ms_presample_overflows(a, channel, ub) ==
    LET m1 == IMul(a.sample1[channel + 1], ms_coeff1(ms_predictor(a, channel), ub), ub)
        m2 == IMul(a.sample2[channel + 1], ms_coeff2(ms_predictor(a, channel), ub), ub)
    IN  \/ MulOverflows(a.sample1[channel + 1], ms_coeff1(ms_predictor(a, channel), ub))
        \/ MulOverflows(a.sample2[channel + 1], ms_coeff2(ms_predictor(a, channel), ub))
        \/ AddOverflows(m1, m2)

\* the floor of delta after its update
MsClampDelta(d) == IF d < 16 THEN 16 ELSE d

\* delta * ms_adpcm_adaptation_table[code] / 256, floored at 16
ms_update_delta(delta, code, ub) ==
    MsClampDelta(CDiv(IMul(delta, ms_adpcm_adaptation_table[code + 1], ub), 256))

\* freerdp_dsp_decode_ms_adpcm_sample: the new storage, the INT16 returned, the
\* index the coefficient tables were read at, and whether an int product or sum
\* overflowed on the way
freerdp_dsp_decode_ms_adpcm_sample(a, sample, channel, ub) ==
    LET nibble == IF sample >= 8 THEN sample - 16 ELSE sample
        delta  == ms_delta(a, channel)
        Store(pre, ovf) ==
            [adpcm |-> set_ms(a, channel, pre, a.sample1[channel + 1],
                              ms_update_delta(delta, sample, ub)),
             value |-> S16(pre),
             index |-> ms_predictor(a, channel),
             ovf   |-> ovf \/ MulOverflows(delta, ms_adpcm_adaptation_table[sample + 1]),
             deltaOvf |-> \/ MulOverflows(nibble, delta)
                          \/ MulOverflows(delta, ms_adpcm_adaptation_table[sample + 1])]
        Add(pre0, incr) ==
            Store(Clamp16(IAdd(pre0, incr, ub)),
                  \/ ms_presample_overflows(a, channel, ub)
                  \/ MulOverflows(nibble, delta)
                  \/ AddOverflows(pre0, incr))
    IN  Add(ms_presample(a, channel, ub), IMul(nibble, delta, ub))

\* the error code of the encode step before it is clamped: the quotient, plus
\* one when the C remainder is above half of delta
ms_errordelta(diff, delta) ==
    CDiv(diff, delta) + (IF CMod(diff, delta) > CDiv(delta, 2) THEN 1 ELSE 0)

\* an error code left as the division gave it
MsKeepError(e) == e

MsClampError(e) == IF e > 7 THEN 7 ELSE IF e < -8 THEN -8 ELSE e

\* freerdp_dsp_encode_ms_adpcm_sample, for delta # 0: the new storage, the
\* nibble returned, the table index and the overflow flag, as for decode
freerdp_dsp_encode_ms_adpcm_sample(a, sample, channel, ub) ==
    LET delta == ms_delta(a, channel)
        Store(pre, code, ovf) ==
            [adpcm |-> set_ms(a, channel, pre, a.sample1[channel + 1],
                              ms_update_delta(delta, code, ub)),
             value |-> code,
             index |-> ms_predictor(a, channel),
             ovf   |-> ovf \/ MulOverflows(delta, ms_adpcm_adaptation_table[code + 1])]
        Add(pre0, err, incr) ==
            Store(Clamp16(IAdd(pre0, incr, ub)), err % 16,
                  \/ ms_presample_overflows(a, channel, ub)
                  \/ MulOverflows(delta, err)
                  \/ AddOverflows(pre0, incr))
        Quant(pre0, err) == Add(pre0, err, IMul(delta, err, ub))
        Pre(pre0) == Quant(pre0, MsClampError(ms_errordelta(sample - pre0, delta)))
    IN  Pre(ms_presample(a, channel, ub))

(***************************************************************************)
(* wStream (winpr): the bytes up to the write position and the capacity.   *)
(* A growth that needs new memory succeeds or fails with the allocator:    *)
(* mem says which.                                                         *)
(***************************************************************************)
Stream_GetPosition(s) == Len(s.data)

RECURSIVE GrowCapacity(_, _)
GrowCapacity(cap, size) == IF cap >= size THEN cap ELSE GrowCapacity(2 * cap, size)

\* Stream_EnsureCapacity: [ok, s]
Stream_EnsureCapacity(s, size, mem) ==
    IF s.cap >= size THEN [ok |-> TRUE, s |-> s]
    ELSE IF mem THEN [ok |-> TRUE, s |-> [s EXCEPT !.cap = GrowCapacity(2 * s.cap, size)]]
    ELSE [ok |-> FALSE, s |-> s]

\* Stream_EnsureRemainingCapacity: [ok, s]
Stream_EnsureRemainingCapacity(s, size, mem) ==
    IF Stream_GetPosition(s) + size > s.cap
    THEN Stream_EnsureCapacity(s, s.cap + size, mem)
    ELSE [ok |-> TRUE, s |-> s]

\* the stream after bytes were stored at its pointer and the pointer moved
\* behind them (Stream_Write, Stream_Seek, Stream_SetPointer)
Stream_Put(s, bytes) == [s EXCEPT !.data = s.data \o bytes]

(***************************************************************************)
(* What a call did on its way                                              *)
(***************************************************************************)
NoObs == [stepIdx  |-> {},     \* indexes ima_step_size_table was read at
          hdrStep  |-> {},     \* last_step values block headers loaded
          predIdx  |-> {},     \* indexes the MS coefficient tables were read at
          hdrDelta |-> {},     \* delta values block headers loaded
          updDelta |-> {},     \* delta values the per-sample steps stored
          hdrOff   |-> <<>>,   \* byte offsets of the block headers read or written
          ovf      |-> FALSE,  \* a signed int overflow happened
          runaway  |-> FALSE,  \* the size counter wrapped below zero
          left     |-> 0,      \* the size counter when the loop ended
          overrun  |-> FALSE,  \* bytes were stored behind the capacity of out
          trap     |-> FALSE,  \* a division by zero
          deltaOvf |-> FALSE,  \* a product of an MS decode step with delta overflowed
          oobRead  |-> FALSE,  \* the resampler read behind its input
          resampled |-> FALSE, \* the resampler ran
          rframes  |-> 0]      \* frames the resampler produced

(***************************************************************************)
(* The codec loops.  The state st of a loop is [a, off, size, dst, obs]:   *)
(* the ADPCM storage, the offset of src, the size left, the bytes stored   *)
(* from the pointer of out on, and what was seen.                          *)
(***************************************************************************)
\* a 16-bit little-endian store at byte at (from 0) of dst
Put16(dst, at, v) == [dst EXCEPT ![at + 1] = v % 256, ![at + 2] = v \div 256]

Runaway(st) == [st EXCEPT !.obs.runaway = TRUE]

(***************************************************************************)
(* IMA / DVI ADPCM decode                                                  *)
(***************************************************************************)
\* one block header of one channel at offset st.off: lines 247-251 / 255-259
ImaDecodeHeader(st, src, channel) ==
    IF st.obs.runaway THEN st
    ELSE IF st.size < 4 THEN Runaway(st)
    ELSE [st EXCEPT
            !.a = set_ima(st.a, channel, RdS16(src, st.off), src[st.off + 3]),
            !.off = st.off + 4,
            !.size = st.size - 4,
            !.obs.hdrStep = @ \cup {src[st.off + 3]},
            !.obs.hdrOff = IF channel = 0 THEN Append(@, st.off) ELSE @]

\* the headers at the start of a block: lines 245-261
ImaDecodeHeaders(st, src, block_size, channels) ==
    IF st.size % block_size # 0 THEN st
    ELSE IF channels > 1 THEN ImaDecodeHeader(ImaDecodeHeader(st, src, 0), src, 1)
    ELSE ImaDecodeHeader(st, src, 0)

\* one code: decoded for channel, the sample stored at byte at (from 0) of dst
ImaDecodeNibble(st, channel, sample, at, ub) ==
    LET Store(r) == [st EXCEPT !.a = r.adpcm,
                               !.dst = Put16(@, at, r.decoded),
                               !.obs.stepIdx = @ \cup {r.index}]
    IN  Store(dsp_decode_ima_adpcm_sample(st.a, channel, sample, ub))

\* where the stereo loop stores the two samples of source byte i of a group
ImaStereoDst(i, channel, high) == ((i % 4) * 8) + (channel * 2) + (IF high THEN 4 ELSE 0)

\* source byte i of a stereo group whose 32 bytes start at byte base of dst:
\* lines 267-276
ImaDecodeStereoByte(st, src, i, base, ub) ==
    LET channel == IF i < 4 THEN 0 ELSE 1
        Advance(s) == [s EXCEPT !.off = @ + 1]
    IN  Advance(ImaDecodeNibble(
                    ImaDecodeNibble(st, channel, src[st.off + 1] % 16,
                                    base + ImaStereoDst(i, channel, FALSE), ub),
                    channel, src[st.off + 1] \div 16,
                    base + ImaStereoDst(i, channel, TRUE), ub))

\* source bytes i..7 of a stereo group: lines 265-277
RECURSIVE ImaDecodeGroup(_, _, _, _, _)
ImaDecodeGroup(st, src, i, base, ub) ==
    IF i = 8 THEN st
    ELSE ImaDecodeGroup(ImaDecodeStereoByte(st, src, i, base, ub), src, i + 1, base, ub)

\* the source byte of the mono loop: lines 284-293
ImaDecodeMonoByte(st, src, ub) ==
    LET Advance(s) == [s EXCEPT !.off = @ + 1, !.size = @ - 1]
    IN  Advance(ImaDecodeNibble(
                    ImaDecodeNibble([st EXCEPT !.dst = @ \o Zeros(4)], 0, src[st.off + 1] % 16,
                                    Len(st.dst), ub),
                    0, src[st.off + 1] \div 16, Len(st.dst) + 2, ub))

\* the data of one iteration, behind the headers if there were any: lines 263-294
ImaDecodeData(h, src, channels, ub) ==
    IF h.obs.runaway THEN h
    ELSE IF channels > 1
    THEN IF h.size < 8 THEN Runaway(h)
         ELSE LET Finish(s) == [s EXCEPT !.size = @ - 8]
              IN  Finish(ImaDecodeGroup([h EXCEPT !.dst = @ \o Zeros(32)], src, 0, Len(h.dst), ub))
    ELSE IF h.size < 1 THEN Runaway(h)
         ELSE ImaDecodeMonoByte(h, src, ub)

\* the while loop of freerdp_dsp_decode_ima_adpcm
RECURSIVE ImaDecodeLoop(_, _, _, _, _)
ImaDecodeLoop(st, src, block_size, channels, ub) ==
    IF st.obs.runaway \/ st.size = 0 THEN st
    ELSE ImaDecodeLoop(ImaDecodeData(ImaDecodeHeaders(st, src, block_size, channels),
                                     src, channels, ub),
                       src, block_size, channels, ub)

\* the state a codec loop starts in
LoopStart(a, src) == [a |-> a, off |-> 0, size |-> Len(src), dst |-> <<>>, obs |-> NoObs]

\* the result of a codec: the return value, the new ADPCM storage, the new
\* output stream and what was seen
CodecResult(ok, a, o, ob) == [ok |-> ok, a |-> a, out |-> o, obs |-> ob]

\* the end of a codec loop: Stream_SetPointer(out, dst)
CodecDone(st, o) ==
    CodecResult(TRUE, st.a, Stream_Put(o, st.dst),
                [st.obs EXCEPT !.left = st.size,
                               !.overrun = Stream_GetPosition(o) + Len(st.dst) > o.cap])

\* a codec whose capacity request cap was answered: failure, or the loop's end
CodecAfter(cap, a, o, st) ==
    IF ~cap.ok THEN CodecResult(FALSE, a, o, NoObs) ELSE CodecDone(st, cap.s)

freerdp_dsp_decode_ima_adpcm(fmt, a, src, o, mem, ub) ==
    CodecAfter(Stream_EnsureCapacity(o, Len(src) * 4, mem), a, o,
               ImaDecodeLoop(LoopStart(a, src), src, fmt.nBlockAlign, fmt.nChannels, ub))

(***************************************************************************)
(* IMA / DVI ADPCM encode                                                  *)
(***************************************************************************)
\* a map that stores the earlier of two samples of a byte in the high nibble
ImaMapHighNibbleFirst ==
    <<<<0, 4>>, <<4, 4>>, <<0, 0>>, <<4, 0>>, <<1, 4>>, <<5, 4>>, <<1, 0>>, <<5, 0>>,
      <<2, 4>>, <<6, 4>>, <<2, 0>>, <<6, 0>>, <<3, 4>>, <<7, 4>>, <<3, 0>>, <<7, 0>>>>

\* ima_stereo_encode_map: <<byte_num, byte_shift>> of sample 0..15 of a group
ima_stereo_encode_map ==
    <<<<0, 0>>, <<4, 0>>, <<0, 4>>, <<4, 4>>, <<1, 0>>, <<5, 0>>, <<1, 4>>, <<5, 4>>,
      <<2, 0>>, <<6, 0>>, <<2, 4>>, <<6, 4>>, <<3, 0>>, <<7, 0>>, <<3, 4>>, <<7, 4>>>>

\* the four header bytes of a channel: lines 634-637 / 641-644
ImaEncodeHeader(a, channel) ==
    <<U16(ima_last_sample(a, channel)) % 256,
      U16(ima_last_sample(a, channel)) \div 256,
      U8(ima_last_step(a, channel)),
      0>>

\* the headers at the start of a block: lines 632-646
ImaEncodeHeaders(st, block_size, channels) ==
    IF Len(st.dst) % block_size # 0 THEN st
    ELSE [st EXCEPT !.dst = @ \o ImaEncodeHeader(st.a, 0)
                               \o (IF channels > 1 THEN ImaEncodeHeader(st.a, 1) ELSE <<>>),
                    !.obs.hdrOff = Append(@, Len(st.dst))]

\* one sample: read at st.off, encoded for channel, its code or-ed into the
\* zeroed byte at (from 0) of dst, shifted left by shift
ImaEncodeSample(st, src, channel, at, shift, ub) ==
    LET Store(r) == [st EXCEPT !.a = r.adpcm,
                               !.off = @ + 2,
                               !.dst[at + 1] = @ + r.enc * (IF shift = 4 THEN 16 ELSE 1),
                               !.obs.stepIdx = @ \cup {r.index}]
    IN  Store(dsp_encode_ima_adpcm_sample(st.a, channel, RdS16(src, st.off), ub))

\* samples i..15 of a stereo group whose 8 bytes start at byte base of dst:
\* lines 652-658
RECURSIVE ImaEncodeGroup(_, _, _, _, _)
ImaEncodeGroup(st, src, i, base, ub) ==
    IF i = 16 THEN st
    ELSE ImaEncodeGroup(ImaEncodeSample(st, src, i % 2,
                                        base + ima_stereo_encode_map[i + 1][1],
                                        ima_stereo_encode_map[i + 1][2], ub),
                        src, i + 1, base, ub)

\* the data of one iteration, behind the headers if there were any: lines 648-673
ImaEncodeData(h, src, channels, ub) ==
    IF channels > 1
    THEN LET Finish(s) == [s EXCEPT !.size = @ - 32]
         IN  Finish(ImaEncodeGroup([h EXCEPT !.dst = @ \o Zeros(8)], src, 0, Len(h.dst), ub))
    ELSE LET Finish(s) == [s EXCEPT !.size = @ - 4]
         IN  Finish(ImaEncodeSample(
                        ImaEncodeSample([h EXCEPT !.dst = @ \o Zeros(1)], src, 0, Len(h.dst), 0, ub),
                        src, 0, Len(h.dst), 4, ub))

\* the while loop of freerdp_dsp_encode_ima_adpcm
RECURSIVE ImaEncodeLoop(_, _, _, _, _)
ImaEncodeLoop(st, src, block_size, channels, ub) ==
    IF ~(st.size > (IF channels > 1 THEN 32 ELSE 4)) THEN st
    ELSE ImaEncodeLoop(ImaEncodeData(ImaEncodeHeaders(st, block_size, channels), src, channels, ub),
                       src, block_size, channels, ub)

freerdp_dsp_encode_ima_adpcm(fmt, a, src, o, mem, ub) ==
    CodecAfter(Stream_EnsureRemainingCapacity(o, Len(src), mem), a, o,
               ImaEncodeLoop(LoopStart(a, src), src, fmt.nBlockAlign, fmt.nChannels, ub))

(***************************************************************************)
(* Microsoft ADPCM decode                                                  *)
(***************************************************************************)
\* the block header at offset st.off: lines 744-784.  Its sample2 and sample1
\* of each channel are stored to dst before any nibble is decoded.
MsDecodeHeader(st, src, channels) ==
    IF channels > 1
    THEN IF st.size < 14 THEN Runaway(st)
         ELSE LET o  == st.off
                  d0 == RdS16(src, o + 2)
                  d1 == RdS16(src, o + 4)
                  s10 == RdS16(src, o + 6)
                  s11 == RdS16(src, o + 8)
                  s20 == RdS16(src, o + 10)
                  s21 == RdS16(src, o + 12)
                  a1 == set_ms_predictor(set_ms_predictor(st.a, 0, src[o + 1]), 1, src[o + 2])
                  a2 == set_ms(set_ms(a1, 0, s10, s20, d0), 1, s11, s21, d1)
              IN  [st EXCEPT !.a = a2,
                             !.off = o + 14,
                             !.size = st.size - 14,
                             !.dst = @ \o Wr16(s20) \o Wr16(s21) \o Wr16(s10) \o Wr16(s11),
                             !.obs.hdrDelta = @ \cup {d0, d1},
                             !.obs.hdrOff = Append(@, o)]
    ELSE IF st.size < 7 THEN Runaway(st)
         ELSE LET o  == st.off
                  d0 == RdS16(src, o + 1)
                  s1 == RdS16(src, o + 3)
                  s2 == RdS16(src, o + 5)
              IN  [st EXCEPT !.a = set_ms(set_ms_predictor(st.a, 0, src[o + 1]), 0, s1, s2, d0),
                             !.off = o + 7,
                             !.size = st.size - 7,
                             !.dst = @ \o Wr16(s2) \o Wr16(s1),
                             !.obs.hdrDelta = @ \cup {d0},
                             !.obs.hdrOff = Append(@, o)]

\* one code: decoded for channel, the sample stored at the end of dst
MsDecodeNibble(st, sample, channel, ub) ==
    LET Store(r) == [st EXCEPT !.a = r.adpcm,
                               !.dst = @ \o Wr16(r.value),
                               !.obs.predIdx = @ \cup {r.index},
                               !.obs.updDelta = @ \cup {ms_delta(r.adpcm, channel)},
                               !.obs.ovf = @ \/ r.ovf,
                               !.obs.deltaOvf = @ \/ r.deltaOvf]
    IN  Store(freerdp_dsp_decode_ms_adpcm_sample(st.a, sample, channel, ub))

\* one source byte: its high nibble for channel 0, its low nibble for channel c2
MsDecodeByte(st, src, c2, ub) ==
    LET Advance(s) == [s EXCEPT !.off = @ + 1, !.size = @ - 1]
    IN  Advance(MsDecodeNibble(MsDecodeNibble(st, src[st.off + 1] \div 16, 0, ub),
                               src[st.off + 1] % 16, c2, ub))

\* the data of one iteration, behind the header if there was one: lines 787-810
MsDecodeData(h, src, channels, ub) ==
    IF h.obs.runaway THEN h
    ELSE IF channels > 1
    THEN IF h.size < 2 THEN Runaway(h)
         ELSE MsDecodeByte(MsDecodeByte(h, src, 1, ub), src, 1, ub)
    ELSE IF h.size < 1 THEN Runaway(h)
         ELSE MsDecodeByte(h, src, 0, ub)

\* the while loop of freerdp_dsp_decode_ms_adpcm
RECURSIVE MsDecodeLoop(_, _, _, _, _)
MsDecodeLoop(st, src, block_size, channels, ub) ==
    IF st.obs.runaway \/ st.size = 0 THEN st
    ELSE MsDecodeLoop(MsDecodeData(IF st.size % block_size = 0
                                   THEN MsDecodeHeader(st, src, channels) ELSE st,
                                   src, channels, ub),
                      src, block_size, channels, ub)

freerdp_dsp_decode_ms_adpcm(fmt, a, src, o, mem, ub) ==
    CodecAfter(Stream_EnsureCapacity(o, Len(src) * 4, mem), a, o,
               MsDecodeLoop(LoopStart(a, src), src, fmt.nBlockAlign, fmt.nChannels, ub))

(***************************************************************************)
(* Microsoft ADPCM encode                                                  *)
(***************************************************************************)
\* the block header: lines 876-908.  sample1 and sample2 are read ahead from
\* the source, stored to the state and written behind the deltas.
MsEncodeHeader(st, src, channels) ==
    IF channels > 1
    THEN LET o   == st.off
             s10 == RdS16(src, o + 4)
             s11 == RdS16(src, o + 6)
             s20 == RdS16(src, o + 0)
             s21 == RdS16(src, o + 2)
         IN  [st EXCEPT !.a = [@ EXCEPT !.sample1 = <<s10, s11>>, !.sample2 = <<s20, s21>>],
                        !.off = o + 8,
                        !.size = st.size - 8,
                        !.dst = @ \o <<ms_predictor(st.a, 0), ms_predictor(st.a, 1)>>
                                  \o Wr16(ms_delta(st.a, 0)) \o Wr16(ms_delta(st.a, 1))
                                  \o Wr16(s10) \o Wr16(s11) \o Wr16(s20) \o Wr16(s21),
                        !.obs.hdrOff = Append(@, Len(st.dst))]
    ELSE LET o  == st.off
             s1 == RdS16(src, o + 2)
             s2 == RdS16(src, o + 0)
         IN  [st EXCEPT !.a = [@ EXCEPT !.sample1[1] = s1, !.sample2[1] = s2],
                        !.off = o + 4,
                        !.size = st.size - 4,
                        !.dst = @ \o <<ms_predictor(st.a, 0)>> \o Wr16(ms_delta(st.a, 0))
                                  \o Wr16(s1) \o Wr16(s2),
                        !.obs.hdrOff = Append(@, Len(st.dst))]

\* one sample: read at st.off, encoded for channel, its code times scale added
\* to the last byte of dst
MsEncodeSample(st, src, channel, scale, ub) ==
    LET Store(r) == [st EXCEPT !.a = r.adpcm,
                               !.off = @ + 2,
                               !.dst[Len(st.dst)] = U8(@ + r.value * scale),
                               !.obs.predIdx = @ \cup {r.index},
                               !.obs.updDelta = @ \cup {ms_delta(r.adpcm, channel)},
                               !.obs.ovf = @ \/ r.ovf]
    IN  Store(freerdp_dsp_encode_ms_adpcm_sample(st.a, RdS16(src, st.off), channel, ub))

\* the two samples of one iteration, behind the header if there was one:
\* lines 911-919
MsEncodeData(h, src, channels, ub) ==
    LET Finish(s) == [s EXCEPT !.size = @ - 4]
    IN  Finish(MsEncodeSample(MsEncodeSample([h EXCEPT !.dst = @ \o Zeros(1)], src, 0, 16, ub),
                              src, IF channels > 1 THEN 1 ELSE 0, 1, ub))

\* the while loop of freerdp_dsp_encode_ms_adpcm
RECURSIVE MsEncodeLoop(_, _, _, _, _)
MsEncodeLoop(st, src, block_size, channels, ub) ==
    IF ~(st.size >= 8 + (IF channels > 1 THEN 4 ELSE 0)) THEN st
    ELSE MsEncodeLoop(MsEncodeData(IF Len(st.dst) % block_size = 0
                                   THEN MsEncodeHeader(st, src, channels) ELSE st,
                                   src, channels, ub),
                      src, block_size, channels, ub)

\* the floor both deltas get before the loop: lines 866-870
MsEncodeClampDeltas(a) == [a EXCEPT !.d0 = MsClampDelta(a.d0), !.d1 = MsClampDelta(a.d1)]

freerdp_dsp_encode_ms_adpcm(fmt, a, src, o, mem, ub) ==
    CodecAfter(Stream_EnsureRemainingCapacity(o, Len(src), mem), a, o,
               MsEncodeLoop(LoopStart(MsEncodeClampDeltas(a), src), src,
                            fmt.nBlockAlign, fmt.nChannels, ub))

(***************************************************************************)
(* The resampler                                                           *)
(***************************************************************************)
\* x > y for two size_t values given by the integers they wrapped from
\* (|x|, |y| far below the word size): a negative one wrapped to the top
SizeGt(x, y) == IF (x < 0) = (y < 0) THEN x > y ELSE x < 0

\* the frame count of line 127, "Integer rounding correct division"
ResampleFrames(sframes, srcRate, dstRate) ==
    (sframes * dstRate + (srcRate + 1) \div 2) \div srcRate

\* n1 of target frame i without the limit of lines 141-142
ResampleN1Unclamped(i, sframes, srcRate, dstRate) == (i * srcRate) \div dstRate

\* n1 of target frame i: lines 139-142 (sframes >= 1)
ResampleN1(i, sframes, srcRate, dstRate) ==
    LET n1 == (i * srcRate) \div dstRate
    IN  IF n1 >= sframes THEN sframes - 1 ELSE n1

\* n2 of target frame i as line 144 computes it: the value of a logical or
ResampleN2(i, n1, sframes, srcRate, dstRate) ==
    IF \/ n1 * dstRate = i * srcRate
       \/ (IF n1 = sframes - 1 THEN n1 ELSE n1 + 1) # 0
    THEN 1 ELSE 0

\* the source frame the bytes of target frame i are copied from: lines 150-153
ResamplePick(i, sframes, srcRate, dstRate) ==
    LET n1 == ResampleN1(i, sframes, srcRate, dstRate)
        n2 == ResampleN2(i, n1, sframes, srcRate, dstRate)
    IN  IF SizeGt(i * srcRate - n1 * dstRate, n2 * dstRate - i * srcRate) THEN n2 ELSE n1

\* the byte at offset k of src; behind the input the read yields whatever lies there
SrcByte(src, k, ub) == IF k < Len(src) THEN src[k + 1] ELSE U8(ub)

\* freerdp_dsp_resample for a PCM srcFormat: [ok, s, obs], s the resample stream
freerdp_dsp_resample(fmt, rs, src, srcFormat, mem, ub) ==
    LET bpf     == IF srcFormat.wBitsPerSample > 8 THEN 2 ELSE 1
        sbytes  == srcFormat.nChannels * bpf
        sframes == Len(src) \div sbytes
        rbytes  == bpf * fmt.nChannels
        srcRate == srcFormat.nSamplesPerSec
        dstRate == fmt.nSamplesPerSec
        rframes == ResampleFrames(sframes, srcRate, dstRate)
        cap     == Stream_EnsureCapacity(rs, rbytes * rframes + 1024, mem)
        from(i) == ResamplePick(i, sframes, srcRate, dstRate)
        \* the source offset of byte k (from 0) of the output
        at(k)   == from(k \div rbytes) * sbytes + ((k % rbytes) % sbytes)
        bytes   == [k \in 1..(rbytes * rframes) |-> SrcByte(src, at(k - 1), ub)]
        ob      == [NoObs EXCEPT !.resampled = TRUE, !.rframes = rframes]
    IN  IF ~cap.ok THEN [ok |-> FALSE, s |-> rs, obs |-> NoObs]
        ELSE IF rframes > 0 /\ dstRate = 0
        THEN [ok |-> FALSE, s |-> rs, obs |-> [ob EXCEPT !.trap = TRUE]]
        ELSE IF rframes > 0 /\ sframes = 0
        \* n1 = sframes - 1 wraps to the top of size_t
        THEN [ok |-> FALSE, s |-> rs, obs |-> [ob EXCEPT !.runaway = TRUE, !.oobRead = rbytes > 0]]
        ELSE [ok |-> TRUE,
              s  |-> [cap.s EXCEPT !.data = bytes],
              obs |-> [ob EXCEPT !.oobRead =
                          \E k \in 0..(rbytes * rframes - 1) : at(k) >= Len(src)]]

(***************************************************************************)
(* Audio formats.  wFormatTag is one of the six known tags or another one. *)
(***************************************************************************)
Format(tag, channels, rate, bits, align) ==
    [wFormatTag |-> tag, nChannels |-> channels, nSamplesPerSec |-> rate,
     wBitsPerSample |-> bits, nBlockAlign |-> align]

\* the format of a context freerdp_dsp_context_new made (calloc)
ZeroFormat == Format("UNKNOWN", 0, 0, 0, 0)

(***************************************************************************)
(* The codecs of the external libraries.  What a library answers is an     *)
(* input: lib.failAt is the number of the library call of this handler     *)
(* that reports an error (0: none does), lib.n the amount a call produces. *)
(* The bytes a library stores are written as 0.                            *)
(***************************************************************************)
\* sizeof(gsmBlockBuffer): 160 gsm_signal of two bytes
GsmBlockBytes == 320

\* sizeof(gsm_frame)
GsmFrameBytes == 33

GsmAdvance(offset) == IF offset % 65 = 0 THEN 33 ELSE 32

\* the loop of freerdp_dsp_decode_gsm610 from `offset`, library call number k
RECURSIVE GsmDecodeLoop(_, _, _, _, _, _)
GsmDecodeLoop(o, offset, size, k, mem, lib) ==
    IF ~(offset < size) THEN [ok |-> TRUE, out |-> o]
    ELSE IF lib.failAt = k THEN [ok |-> FALSE, out |-> o]
    ELSE LET cap == Stream_EnsureRemainingCapacity(o, GsmBlockBytes, mem)
         IN  IF ~cap.ok THEN [ok |-> FALSE, out |-> o]
             ELSE GsmDecodeLoop(Stream_Put(cap.s, Zeros(GsmBlockBytes)),
                                offset + GsmAdvance(offset), size, k + 1, mem, lib)

freerdp_dsp_decode_gsm610(o, size, mem, lib) == GsmDecodeLoop(o, 0, size, 1, mem, lib)

\* the loop of freerdp_dsp_encode_gsm610 from `offset`
RECURSIVE GsmEncodeLoop(_, _, _, _)
GsmEncodeLoop(o, offset, size, mem) ==
    IF ~(offset < size) THEN [ok |-> TRUE, out |-> o]
    ELSE LET cap == Stream_EnsureRemainingCapacity(o, GsmFrameBytes, mem)
         IN  IF ~cap.ok THEN [ok |-> FALSE, out |-> o]
             ELSE GsmEncodeLoop(Stream_Put(cap.s, Zeros(GsmAdvance(offset))),
                                offset + 160, size, mem)

freerdp_dsp_encode_gsm610(o, size, mem) == GsmEncodeLoop(o, 0, size, mem)

\* freerdp_dsp_decode_mp3: hip_decode answers lib.n samples, or an error
freerdp_dsp_decode_mp3(fmt, b, o, mem, lib) ==
    LET buffer_size == 2 * fmt.nChannels * fmt.nSamplesPerSec
        bcap == Stream_EnsureCapacity(b, 2 * buffer_size, mem)
        rc   == IF lib.failAt = 1 THEN -1 ELSE lib.n
        cap  == Stream_EnsureRemainingCapacity(o, rc * fmt.nChannels * 2, mem)
    IN  IF ~bcap.ok THEN [ok |-> FALSE, out |-> o, buffer |-> b]
        ELSE IF rc <= 0 THEN [ok |-> FALSE, out |-> o, buffer |-> bcap.s]
        ELSE IF ~cap.ok THEN [ok |-> FALSE, out |-> o, buffer |-> bcap.s]
        ELSE [ok |-> TRUE, out |-> Stream_Put(cap.s, Zeros(4 * rc)), buffer |-> bcap.s]

\* freerdp_dsp_encode_mp3: lame_encode_buffer_interleaved answers lib.n bytes, or an error
freerdp_dsp_encode_mp3(fmt, o, size, mem, lib) ==
    LET samples_per_channel == ((size \div fmt.nChannels) \div fmt.wBitsPerSample) \div 8
        cap == Stream_EnsureRemainingCapacity(o, (5 * samples_per_channel) \div 4 + 7200, mem)
        rc  == IF lib.failAt = 1 THEN -1 ELSE lib.n
    IN  IF ~cap.ok THEN [ok |-> FALSE, out |-> o]
        ELSE IF rc < 0 THEN [ok |-> FALSE, out |-> cap.s]
        ELSE [ok |-> TRUE, out |-> Stream_Put(cap.s, Zeros(rc))]

\* freerdp_dsp_encode_faac: faacEncEncode answers lib.n bytes, or an error
freerdp_dsp_encode_faac(fmt, b, e, o, mem, lib) ==
    LET bcap == Stream_EnsureCapacity(b, e.faacInputSamples * 4 * fmt.nChannels, mem)
        cap  == Stream_EnsureRemainingCapacity(o, e.faacMaxOutputBytes, mem)
        rc   == IF lib.failAt = 1 THEN -1 ELSE lib.n
    IN  IF ~bcap.ok THEN [ok |-> FALSE, out |-> o, buffer |-> b]
        ELSE IF ~cap.ok THEN [ok |-> FALSE, out |-> o, buffer |-> bcap.s]
        ELSE IF rc < 0 THEN [ok |-> FALSE, out |-> cap.s, buffer |-> bcap.s]
        ELSE [ok |-> TRUE, out |-> Stream_Put(cap.s, Zeros(rc)), buffer |-> bcap.s]

\* the loop of freerdp_dsp_decode_faad from `offset`, library call number k:
\* NeAACDecDecode2 reports an error, or consumes at least one byte and
\* produces lib.n samples
RECURSIVE FaadDecodeLoop(_, _, _, _, _, _, _)
FaadDecodeLoop(fmt, o, offset, size, k, mem, lib) ==
    IF ~(offset < size) THEN [ok |-> TRUE, out |-> o]
    ELSE LET outSize == (fmt.nSamplesPerSec * fmt.nChannels * fmt.wBitsPerSample) \div 8
             cap == Stream_EnsureRemainingCapacity(o, outSize, mem)
         IN  IF ~cap.ok THEN [ok |-> FALSE, out |-> o]
             ELSE IF lib.failAt = k THEN [ok |-> FALSE, out |-> cap.s]
             ELSE FaadDecodeLoop(fmt,
                                 Stream_Put(cap.s, Zeros((lib.n * fmt.wBitsPerSample) \div 8)),
                                 offset + Max(1, lib.n), size, k + 1, mem, lib)

\* freerdp_dsp_decode_faad: NeAACDecInit is library call 1 of a context not set up
freerdp_dsp_decode_faad(fmt, e, o, size, mem, lib) ==
    IF ~e.faadSetup /\ lib.failAt = 1 THEN [ok |-> FALSE, out |-> o, ext |-> e]
    ELSE LET r == FaadDecodeLoop(fmt, o, 0, size, IF e.faadSetup THEN 1 ELSE 2, mem, lib)
         IN  [ok |-> r.ok, out |-> r.out, ext |-> [e EXCEPT !.faadSetup = TRUE]]

(***************************************************************************)
(* The dispatcher.  A call's environment env is [mem, ub, lib]: whether    *)
(* the allocator can grow a stream, what an undefined read or overflow     *)
(* yields, what the external library answers.  A result is                 *)
(* [ret, adpcm, resample, buffer, ext, out, obs].                          *)
(***************************************************************************)
Ctx(a, rs, b, e) == [adpcm |-> a, resample |-> rs, buffer |-> b, ext |-> e]

Result(ret, c, o, ob) ==
    [ret |-> ret, adpcm |-> c.adpcm, resample |-> c.resample, buffer |-> c.buffer,
     ext |-> c.ext, out |-> o, obs |-> ob]

\* the call cannot return: a trap, or a loop that runs off its buffers
Crashes(ob) == ob.trap \/ ob.runaway

\* the PCM case of both switches, cap the answer to the capacity request
PcmResult(c, cap, data, o, ob) ==
    IF ~cap.ok THEN Result(FALSE, c, o, ob)
    ELSE Result(TRUE, c, Stream_Put(cap.s, data), ob)

\* the result of a call from the result r of an ADPCM codec; ob is what the
\* resampler saw before it
AdpcmResult(c, r, ob) ==
    Result(r.ok, [c EXCEPT !.adpcm = r.a], r.out,
           [r.obs EXCEPT !.resampled = ob.resampled, !.rframes = ob.rframes,
                         !.oobRead = ob.oobRead])

\* the result of a call from the result r of an external codec that works on
\* out alone, on out and context->buffer, on out and the codec's handle
OutResult(c, r, ob) == Result(r.ok, c, r.out, ob)

BufferResult(c, r, ob) == Result(r.ok, [c EXCEPT !.buffer = r.buffer], r.out, ob)

HandleResult(c, r, ob) == Result(r.ok, [c EXCEPT !.ext = r.ext], r.out, ob)

\* the switch of freerdp_dsp_encode on context->format.wFormatTag: lines 1056-1088
EncodeSwitch(bld, fmt, c, data, o, env, ob) ==
    CASE fmt.wFormatTag = "PCM" ->
           PcmResult(c, Stream_EnsureRemainingCapacity(o, Len(data), env.mem), data, o, ob)
      [] fmt.wFormatTag = "ADPCM" ->
           AdpcmResult(c, freerdp_dsp_encode_ms_adpcm(fmt, c.adpcm, data, o, env.mem, env.ub), ob)
      [] fmt.wFormatTag = "DVI_ADPCM" ->
           AdpcmResult(c, freerdp_dsp_encode_ima_adpcm(fmt, c.adpcm, data, o, env.mem, env.ub), ob)
      [] fmt.wFormatTag = "GSM610" /\ bld.gsm ->
           OutResult(c, freerdp_dsp_encode_gsm610(o, Len(data), env.mem), ob)
      [] fmt.wFormatTag = "MPEGLAYER3" /\ bld.lame ->
           OutResult(c, freerdp_dsp_encode_mp3(fmt, o, Len(data), env.mem, env.lib), ob)
      [] fmt.wFormatTag = "AAC_MS" /\ bld.faac ->
           BufferResult(c, freerdp_dsp_encode_faac(fmt, c.buffer, c.ext, o, env.mem, env.lib), ob)
      [] OTHER -> Result(FALSE, c, o, ob)

\* freerdp_dsp_encode behind the resampler, r its result: lines 1049-1054
EncodeResampled(bld, fmt, c, o, env, r) ==
    IF ~r.ok THEN Result(FALSE, c, o, r.obs)
    ELSE EncodeSwitch(bld, fmt, [c EXCEPT !.resample = r.s], r.s.data, o, env, r.obs)

\* freerdp_dsp_encode; nul names the absent argument, "none" when all are given
freerdp_dsp_encode(bld, enc, fmt, c, nul, srcFormat, data, o, env) ==
    IF nul # "none" \/ ~enc THEN Result(FALSE, c, o, NoObs)
    ELSE IF srcFormat.nSamplesPerSec # fmt.nSamplesPerSec
    THEN EncodeResampled(bld, fmt, c, o, env,
                         freerdp_dsp_resample(fmt, c.resample, data, srcFormat, env.mem, env.ub))
    ELSE EncodeSwitch(bld, fmt, c, data, o, env, NoObs)

\* the switch of freerdp_dsp_decode on context->format.wFormatTag: lines 1104-1136
DecodeSwitch(bld, fmt, c, data, o, env) ==
    CASE fmt.wFormatTag = "PCM" ->
           PcmResult(c, Stream_EnsureRemainingCapacity(o, Len(data), env.mem), data, o, NoObs)
      [] fmt.wFormatTag = "ADPCM" ->
           AdpcmResult(c, freerdp_dsp_decode_ms_adpcm(fmt, c.adpcm, data, o, env.mem, env.ub), NoObs)
      [] fmt.wFormatTag = "DVI_ADPCM" ->
           AdpcmResult(c, freerdp_dsp_decode_ima_adpcm(fmt, c.adpcm, data, o, env.mem, env.ub), NoObs)
      [] fmt.wFormatTag = "GSM610" /\ bld.gsm ->
           OutResult(c, freerdp_dsp_decode_gsm610(o, Len(data), env.mem, env.lib), NoObs)
      [] fmt.wFormatTag = "MPEGLAYER3" /\ bld.lame ->
           BufferResult(c, freerdp_dsp_decode_mp3(fmt, c.buffer, o, env.mem, env.lib), NoObs)
      [] fmt.wFormatTag = "AAC_MS" /\ bld.faad ->
           HandleResult(c, freerdp_dsp_decode_faad(fmt, c.ext, o, Len(data), env.mem, env.lib), NoObs)
      [] OTHER -> Result(FALSE, c, o, NoObs)

\* freerdp_dsp_decode without the test of context->encoder
DecodeInAnyMode(bld, enc, fmt, c, nul, data, o, env) ==
    IF nul # "none" THEN Result(FALSE, c, o, NoObs)
    ELSE DecodeSwitch(bld, fmt, c, data, o, env)

\* freerdp_dsp_decode
freerdp_dsp_decode(bld, enc, fmt, c, nul, data, o, env) ==
    IF nul # "none" \/ enc THEN Result(FALSE, c, o, NoObs)
    ELSE DecodeSwitch(bld, fmt, c, data, o, env)

\* a capability answer that looks at the direction alone
SupportsDecodeOnly(bld, fmt, encode) == ~encode

\* freerdp_dsp_supports_format
freerdp_dsp_supports_format(bld, fmt, encode) ==
    CASE fmt.wFormatTag \in {"PCM", "ADPCM", "DVI_ADPCM"} -> TRUE
      [] fmt.wFormatTag = "GSM610" /\ bld.gsm -> IF bld.experimental THEN TRUE ELSE ~encode
      [] fmt.wFormatTag = "MPEGLAYER3" /\ bld.lame -> IF bld.experimental THEN TRUE ELSE ~encode
      [] fmt.wFormatTag = "AAC_MS" ->
           \/ bld.faad /\ ~encode
           \/ bld.faac /\ bld.experimental /\ encode
      [] OTHER -> FALSE

\* a reset that answers without storing the format
ResetKeepsFormat(bld, enc, fmt, e, nul, targetFormat, lib) ==
    [ret |-> nul = "none", format |-> fmt, ext |-> e]

\* freerdp_dsp_context_reset: [ret, format, ext].  With WITH_FAAC an encoder
\* opens a new faac handle after the format was stored; faacEncOpen answers a
\* handle and the two sizes (lib.n), or NULL
freerdp_dsp_context_reset(bld, enc, fmt, e, nul, targetFormat, lib) ==
    IF nul # "none" THEN [ret |-> FALSE, format |-> fmt, ext |-> e]
    ELSE LET e1 == IF bld.faad THEN [e EXCEPT !.faadSetup = FALSE] ELSE e
         IN  IF bld.faac /\ enc
             THEN IF lib.failAt = 1
                  THEN [ret |-> FALSE, format |-> targetFormat, ext |-> [e1 EXCEPT !.faac = FALSE]]
                  ELSE [ret |-> TRUE, format |-> targetFormat,
                        ext |-> [e1 EXCEPT !.faac = TRUE, !.faacInputSamples = lib.n,
                                           !.faacMaxOutputBytes = lib.n]]
             ELSE [ret |-> TRUE, format |-> targetFormat, ext |-> e1]

(***************************************************************************)
(* Bounds and the inputs of the calls                                      *)
(***************************************************************************)
\* calls made on one context
MaxCalls == 3

\* capacity of the streams the caller hands over as out
OutCap == 16

\* the rate of the target formats; sources come at it or at twice it
Rate == 2

\* a byte run of length n that alternates a and b
Pattern(n, a, b) == [k \in 1..n |-> IF k % 2 = 1 THEN a ELSE b]

\* the byte pairs of the inputs.  As a block header <<6, 1>> is valid for both
\* codecs, <<0, 0>> holds a zero MS delta, <<136, 7>> holds an IMA step index
\* above 88 and MS predictors above 6; 136 is the nibble pair 8, 8.
Pairs == {<<6, 1>>, <<0, 0>>, <<136, 7>>}

\* lengths of compressed input in whole blocks: one block of align 8, two
\* blocks of align 8 or one of align 16
DecLens == {8, 16}

\* compressed input of one block of align 8 and one byte more
PartialBlock == Pattern(9, 6, 1)

\* input for two GSM frames
GsmTwoFrames == 34

DecInputs ==
    {Pattern(n, p[1], p[2]) : n \in DecLens, p \in Pairs} \cup {PartialBlock, Zeros(GsmTwoFrames)}

\* lengths of PCM input: two mono groups, and one stereo group with one sample more
EncLens == {8, 36}

\* PCM input: the samples 262 or the samples 1928
EncInputs == {Pattern(n, p[1], p[2]) : n \in EncLens, p \in Pairs \ {<<0, 0>>}}

\* target formats: the ADPCM ones mono with blocks of 8 bytes and stereo with
\* blocks of 16 bytes
Formats ==
    {Format("PCM", 1, Rate, 16, 2),
     Format("DVI_ADPCM", 1, Rate, 4, 8), Format("DVI_ADPCM", 2, Rate, 4, 16),
     Format("ADPCM", 1, Rate, 4, 8), Format("ADPCM", 2, Rate, 4, 16),
     Format("GSM610", 1, Rate, 16, 65), Format("MPEGLAYER3", 2, Rate, 16, 1),
     Format("AAC_MS", 2, Rate, 16, 4), Format("OTHER", 1, Rate, 16, 2)}

\* source formats of encode, PCM of 16 bit: mono at twice the rate, stereo at the rate
SrcFormats == {Format("PCM", 1, 2 * Rate, 16, 2), Format("PCM", 2, Rate, 16, 4)}

\* what an undefined read or a signed overflow yields
UbValues == {0, -300}

\* what the external library answers: two units from every call, or an error
\* from the first or the second call, or nothing from any call
Libs == {[failAt |-> f, n |-> 2] : f \in 0..2} \cup {[failAt |-> 0, n |-> 0]}

NoLib == [failAt |-> 0, n |-> 0]

\* builds: every combination of the codec switches
Builds == {[gsm |-> g, lame |-> l, faad |-> d, faac |-> c, experimental |-> x] :
              g \in BOOLEAN, l \in BOOLEAN, d \in BOOLEAN, c \in BOOLEAN, x \in BOOLEAN}

\* builds of the context machine: without and with the external codecs
MainBuilds == {b \in Builds : ~b.experimental /\ b.gsm = b.lame /\ b.lame = b.faad /\ b.faad = b.faac}

Stream(data, cap) == [data |-> data, cap |-> cap]

\* Stream_New(NULL, 4096) of freerdp_dsp_context_new
NewStream == Stream(<<>>, 4096)

\* the stream a caller hands over as out, the same at every call of a run:
\* it holds two bytes already
OutStreams == {Stream(Zeros(2), OutCap)}

NoExt == [faadSetup |-> FALSE, faac |-> FALSE, faacInputSamples |-> 0, faacMaxOutputBytes |-> 0]

\* a call: the operation, the absent argument ("none": all given), the length
\* of the data, the stream handed over as out, the return value
Call(op, nul, len, o, ret) == [op |-> op, nul |-> nul, len |-> len, out |-> o, ret |-> ret]

Ret(ok) == IF ok THEN "true" ELSE "false"

\* a call of context_reset: as a call, with the format handed over
ResetCall(nul, targetFormat, o, ret) ==
    [op |-> "reset", nul |-> nul, len |-> 0, out |-> o, ret |-> ret, targetFormat |-> targetFormat]

(***************************************************************************)
(* The context machine: freerdp_dsp_context_new, then calls of             *)
(* context_reset, encode and decode in any order.                          *)
(***************************************************************************)
Init ==
    /\ build \in MainBuilds
    /\ alive = TRUE
    /\ encoder \in BOOLEAN
    /\ format = ZeroFormat
    /\ adpcm = ZeroAdpcm
    /\ buffer = NewStream
    /\ resample = NewStream
    /\ ext = NoExt
    /\ out \in OutStreams
    /\ call = Call("new", "none", 0, out, "true")
    /\ obs = NoObs
    /\ ncalls = 0

CanCall == alive /\ ncalls < MaxCalls

\* the state after a call of encode or decode, handed o as out, with result r
Returned(op, nul, len, o, r) ==
    /\ ncalls' = ncalls + 1
    /\ obs' = r.obs
    /\ UNCHANGED <<build, encoder, format>>
    /\ IF Crashes(r.obs)
       THEN /\ alive' = FALSE
            /\ call' = Call(op, nul, len, o, "crash")
            /\ out' = o
            /\ UNCHANGED <<adpcm, buffer, resample, ext>>
       ELSE /\ alive' \in (IF r.obs.overrun THEN BOOLEAN ELSE {TRUE})
            /\ call' = Call(op, nul, len, o, Ret(r.ret))
            /\ adpcm' = r.adpcm
            /\ buffer' = r.buffer
            /\ resample' = r.resample
            /\ ext' = r.ext
            /\ out' = r.out

\* the library answers that can make a difference to a reset
ResetLibs == IF build.faac /\ encoder THEN Libs ELSE {NoLib}

\* the formats handed to a reset: each of them, and a zeroed one with the
\* calls that lack an argument
ResetFormats(nul) == IF nul = "none" THEN Formats ELSE {ZeroFormat}

Reset ==
    /\ CanCall
    /\ \E nul \in {"none", "context", "targetFormat"}, lib \in ResetLibs :
       \E targetFormat \in ResetFormats(nul) :
          LET r == freerdp_dsp_context_reset(build, encoder, format, ext, nul, targetFormat, lib)
          IN  /\ format' = r.format
              /\ ext' = r.ext
              /\ call' = ResetCall(nul, targetFormat, call.out, Ret(r.ret))
    /\ obs' = NoObs
    /\ ncalls' = ncalls + 1
    /\ UNCHANGED <<build, alive, encoder, adpcm, buffer, resample, out>>

NulArgs == {"context", "srcFormat", "data", "out"}

IsExternal(fmt) == fmt.wFormatTag \in {"GSM610", "MPEGLAYER3", "AAC_MS"}

\* the environments of a call on format fmt: the allocator fails, or it does
\* not and the library (external codecs) or the undefined reads (the others)
\* answer one way or another
Envs(fmt) ==
    {[mem |-> FALSE, ub |-> 0, lib |-> NoLib]} \cup
    (IF IsExternal(fmt)
     THEN {[mem |-> TRUE, ub |-> 0, lib |-> l] : l \in Libs}
     ELSE {[mem |-> TRUE, ub |-> u, lib |-> NoLib] : u \in UbValues})

\* the data of a call on format fmt: the external codecs, not modelled
\* beyond their answers, get data of each length once
DataFor(fmt, inputs) ==
    IF IsExternal(fmt) THEN {Zeros(n) : n \in {Len(d) : d \in inputs}} ELSE inputs

NoEnv == [mem |-> TRUE, ub |-> 0, lib |-> NoLib]

Encode ==
    /\ CanCall
    /\ LET o == call.out IN
          \/ \E nul \in NulArgs :
                Returned("encode", nul, 0, o,
                         freerdp_dsp_encode(build, encoder, format, Ctx(adpcm, resample, buffer, ext),
                                            nul, ZeroFormat, <<>>, o, NoEnv))
          \/ \E srcFormat \in SrcFormats, data \in DataFor(format, EncInputs), env \in Envs(format) :
                Returned("encode", "none", Len(data), o,
                         freerdp_dsp_encode(build, encoder, format, Ctx(adpcm, resample, buffer, ext),
                                            "none", srcFormat, data, o, env))

Decode ==
    /\ CanCall
    /\ LET o == call.out IN
          \/ \E nul \in NulArgs :
                Returned("decode", nul, 0, o,
                         freerdp_dsp_decode(build, encoder, format, Ctx(adpcm, resample, buffer, ext),
                                            nul, <<>>, o, NoEnv))
          \/ \E data \in DataFor(format, DecInputs), env \in Envs(format) :
                Returned("decode", "none", Len(data), o,
                         freerdp_dsp_decode(build, encoder, format, Ctx(adpcm, resample, buffer, ext),
                                            "none", data, o, env))

Next == Reset \/ Encode \/ Decode

Spec == Init /\ [][Next]_vars

(***************************************************************************)
(* The per-sample steps on their own: from any storage, a step of one of   *)
(* the four functions on one channel.                                      *)
(***************************************************************************)
\* steps made on one storage
MaxSteps == 1

\* bytes 0..1 of the storage: last_sample[0] of IMA is 0, 32767, -32768, 1541;
\* the predictors of MS are 0 and 0, 255 and 127, 0 and 128, 5 and 6
SampleHalves == {0, 32767, 32768, 1541}

\* bytes 4..7 of the storage: delta[0] of MS; last_step[0] and last_step[1]
\* of IMA are its halves: 0 and 0, 16 and 0, 88 and 0, 136 and 0, -1 and -1,
\* 0 and 88, -1 and 32767
SampleDeltas == {0, 16, 88, 136, -1, 88 * 65536, INT32_MAX}

\* the PCM samples handed to the encode steps: the extremes, 8 above and 100
\* below an extreme, and two in between
SamplePcm == {-32768, -32760, 0, 1000, 32667, 32767}

SampleStorages ==
    {[h0 |-> h, h1 |-> h, d0 |-> d, d1 |-> d, sample1 |-> <<s, s>>, sample2 |-> <<t, t>>] :
        h \in SampleHalves, d \in SampleDeltas, s \in {-32768, 32767}, t \in {0, 32767}}

\* what an undefined read or a signed overflow yields in a step
SampleUb == {INT32_MAX, -INT32_MAX}

\* a step: the function, the channel, the code or sample, how it ended and the
\* value it returned
Step(op, channel, arg, ret, value) ==
    [op |-> op, channel |-> channel, arg |-> arg, ret |-> ret, value |-> value]

InitSample ==
    /\ build \in {b \in MainBuilds : ~b.gsm}
    /\ alive = TRUE
    /\ encoder = FALSE
    /\ format = ZeroFormat
    /\ adpcm \in SampleStorages
    /\ buffer = NewStream
    /\ resample = NewStream
    /\ ext = NoExt
    /\ out = NewStream
    /\ call = Step("none", 0, 0, "done", 0)
    /\ obs = NoObs
    /\ ncalls = 0

CanStep == alive /\ ncalls < MaxSteps

\* the state after a step that returned r
Stepped(op, channel, arg, stored, ob, value) ==
    /\ adpcm' = stored
    /\ call' = Step(op, channel, arg, "done", value)
    /\ obs' = ob
    /\ ncalls' = ncalls + 1
    /\ UNCHANGED <<build, alive, encoder, format, buffer, resample, ext, out>>

ImaSampleSeen(r) == [NoObs EXCEPT !.stepIdx = {r.index}]

MsSampleSeen(r, channel) ==
    [NoObs EXCEPT !.predIdx = {r.index}, !.updDelta = {ms_delta(r.adpcm, channel)}, !.ovf = r.ovf]

DecodeImaSample ==
    /\ CanStep
    /\ \E channel \in 0..1, sample \in 0..15, ub \in SampleUb :
          LET Done(r) == Stepped("decode_ima", channel, sample, r.adpcm, ImaSampleSeen(r), r.decoded)
          IN  Done(dsp_decode_ima_adpcm_sample(adpcm, channel, sample, ub))

EncodeImaSample ==
    /\ CanStep
    /\ \E channel \in 0..1, sample \in SamplePcm, ub \in SampleUb :
          LET Done(r) == Stepped("encode_ima", channel, sample, r.adpcm, ImaSampleSeen(r), r.enc)
          IN  Done(dsp_encode_ima_adpcm_sample(adpcm, channel, sample, ub))

DecodeMsSample ==
    /\ CanStep
    /\ \E channel \in 0..1, sample \in 0..15, ub \in SampleUb :
          LET Done(r) == Stepped("decode_ms", channel, sample, r.adpcm, MsSampleSeen(r, channel), r.value)
          IN  Done(freerdp_dsp_decode_ms_adpcm_sample(adpcm, sample, channel, ub))

\* with a delta of 0 the division of line 823 traps
EncodeMsSample ==
    /\ CanStep
    /\ \E channel \in 0..1, sample \in SamplePcm, ub \in SampleUb :
          IF ms_delta(adpcm, channel) = 0
          THEN /\ alive' = FALSE
               /\ call' = Step("encode_ms", channel, sample, "crash", 0)
               /\ obs' = [NoObs EXCEPT !.trap = TRUE]
               /\ ncalls' = ncalls + 1
               /\ UNCHANGED <<build, encoder, format, adpcm, buffer, resample, ext, out>>
          ELSE LET Done(r) == Stepped("encode_ms", channel, sample, r.adpcm, MsSampleSeen(r, channel), r.value)
               IN  Done(freerdp_dsp_encode_ms_adpcm_sample(adpcm, sample, channel, ub))

NextSample == DecodeImaSample \/ EncodeImaSample \/ DecodeMsSample \/ EncodeMsSample

SpecSample == InitSample /\ [][NextSample]_vars

(***************************************************************************)
(* The resampler on its own: one call for a target format and an input.    *)
(***************************************************************************)
\* the rates of both sides are 1..MaxRate
MaxRate == 3

\* the inputs hold up to MaxFrames frames
MaxFrames == 3

\* the bytes 1, 2, .., n
Ramp(n) == [k \in 1..n |-> k % 256]

\* PCM formats of 8 and 16 bit, mono and stereo, at every rate
PcmFormats ==
    {Format("PCM", ch, rate, bits, ch * (bits \div 8)) :
        ch \in 1..2, rate \in 1..MaxRate, bits \in {8, 16}}

\* a call of the resampler: the arguments, how it ended
Resampling(srcFormat, data, ret) ==
    [op |-> "resample", srcFormat |-> srcFormat, data |-> data, ret |-> ret]

InitResample ==
    /\ build \in {b \in MainBuilds : ~b.gsm}
    /\ alive = TRUE
    /\ encoder = TRUE
    /\ format \in PcmFormats
    /\ adpcm = ZeroAdpcm
    /\ buffer = NewStream
    /\ resample = NewStream
    /\ ext = NoExt
    /\ out = NewStream
    /\ call = Resampling(ZeroFormat, <<>>, "none")
    /\ obs = NoObs
    /\ ncalls = 0

\* the state after a call of the resampler that answered r
Resampled(srcFormat, data, r) ==
    /\ obs' = r.obs
    /\ ncalls' = ncalls + 1
    /\ UNCHANGED <<build, encoder, format, adpcm, buffer, ext, out>>
    /\ IF Crashes(r.obs)
       THEN /\ alive' = FALSE
            /\ call' = Resampling(srcFormat, data, "crash")
            /\ UNCHANGED resample
       ELSE /\ alive' \in (IF r.obs.oobRead THEN BOOLEAN ELSE {TRUE})
            /\ call' = Resampling(srcFormat, data, Ret(r.ok))
            /\ resample' = r.s

\* a call for whole frames and for whole frames and one byte more; the stream
\* of a new context is large enough for each of them
Resample ==
    /\ alive /\ ncalls < 1
    /\ \E srcFormat \in PcmFormats, frames \in 0..MaxFrames, more \in 0..1, ub \in UbValues :
          Resampled(srcFormat, Ramp(frames * srcFormat.nBlockAlign + more),
                    freerdp_dsp_resample(format, resample, Ramp(frames * srcFormat.nBlockAlign + more),
                                         srcFormat, TRUE, ub))

NextResample == Resample

SpecResample == InitResample /\ [][NextResample]_vars

(***************************************************************************)
(* The capability query on its own: calls of freerdp_dsp_supports_format   *)
(* under every build, next to a context that is never handed to it.        *)
(***************************************************************************)
\* a call of supports_format: the arguments, the answer
Query(fmt, encode, ret) == [op |-> "supports_format", format |-> fmt, encode |-> encode, ret |-> ret]

InitSupports ==
    /\ build \in Builds
    /\ alive = TRUE
    /\ encoder \in BOOLEAN
    /\ format = ZeroFormat
    /\ adpcm = ZeroAdpcm
    /\ buffer = NewStream
    /\ resample = NewStream
    /\ ext = NoExt
    /\ out \in OutStreams
    /\ call = Query(ZeroFormat, FALSE, "none")
    /\ obs = NoObs
    /\ ncalls = 0

SupportsFormat ==
    /\ CanCall
    /\ \E fmt \in Formats, encode \in BOOLEAN :
          call' = Query(fmt, encode, Ret(freerdp_dsp_supports_format(build, fmt, encode)))
    /\ ncalls' = ncalls + 1
    /\ UNCHANGED <<build, alive, encoder, format, adpcm, buffer, resample, ext, out, obs>>

NextSupports == SupportsFormat

SpecSupports == InitSupports /\ [][NextSupports]_vars

(***************************************************************************)
(* The two ADPCM codecs between two contexts of one format: an encoder     *)
(* context encodes PCM data, and a decoder context decodes the bytes the   *)
(* encoder stored, or whole blocks that came from elsewhere.  After a      *)
(* decode the variables describe the decoder context, and the call keeps   *)
(* what the encoder had: the PCM data, its storage and its header offsets. *)
(***************************************************************************)
\* nBlockAlign values: from a block that is shorter than a header to a block
\* of a header and several data bytes
CodecAligns == {4, 8, 12, 16, 24}

CodecFormats ==
    {Format(tag, ch, Rate, 4, align) :
        tag \in {"DVI_ADPCM", "ADPCM"}, ch \in 1..2, align \in CodecAligns}

\* the PCM format of the data handed to the encoder of format fmt
CodecSrcFormat(fmt) == Format("PCM", fmt.nChannels, fmt.nSamplesPerSec, 16, 2 * fmt.nChannels)

\* the storage of a context that has encoded before
ImaUsed == set_ima(set_ima(ZeroAdpcm, 0, 1541, 30), 1, -300, 40)

MsUsed == set_ms(set_ms(set_ms_predictor(set_ms_predictor(ZeroAdpcm, 0, 5), 1, 2),
                        0, 700, -20, 48), 1, -9, 300, 230)

CodecStorages(fmt) == {ZeroAdpcm, IF fmt.wFormatTag = "DVI_ADPCM" THEN ImaUsed ELSE MsUsed}

\* PCM data: lengths that make one, two and three whole blocks and a short
\* last block, of slowly rising and of jumping samples
CodecPcmLens == {8, 24, 36, 56, 68}

Jumps(n) == [k \in 1..n |-> (k * 37) % 256]

CodecPcm == {Ramp(n) : n \in CodecPcmLens} \cup {Jumps(n) : n \in CodecPcmLens}

\* the MS block header of predictor 0, delta 32767 and samples 0 for each
\* channel
LoudHeader(channels) ==
    IF channels > 1 THEN <<0, 0, 255, 127, 255, 127, 0, 0, 0, 0, 0, 0, 0, 0>>
    ELSE <<0, 255, 127, 0, 0, 0, 0>>

\* one block of format fmt: that header, as far as the block holds it, and
\* behind it the nibble 8, of the largest adaptation, throughout
LoudBlock(fmt) ==
    [k \in 1..fmt.nBlockAlign |->
        IF k <= Len(LoudHeader(fmt.nChannels)) THEN LoudHeader(fmt.nChannels)[k] ELSE 136]

\* data of one and of two whole blocks of format fmt
CodecBlocks(fmt) ==
    {Pattern(n * fmt.nBlockAlign, p[1], p[2]) : n \in 1..2, p \in Pairs}
        \cup (IF fmt.wFormatTag = "ADPCM" THEN {LoudBlock(fmt)} ELSE {})

NoTrip == [pcm |-> <<>>, adpcm |-> ZeroAdpcm, hdrOff |-> <<>>]

\* what the encoder of the data being decoded had
Trip(pcm, a, hdrOff) == [pcm |-> pcm, adpcm |-> a, hdrOff |-> hdrOff]

\* a call of the two contexts: the operation, its data, the return value and
\* the encoder's side of a decode
Transfer(op, data, ret, trip) == [op |-> op, data |-> data, ret |-> ret, trip |-> trip]

CodecEnvs == {[mem |-> TRUE, ub |-> u, lib |-> NoLib] : u \in UbValues}

InitCodec ==
    /\ build \in {b \in MainBuilds : ~b.gsm}
    /\ alive = TRUE
    /\ encoder \in BOOLEAN
    /\ format \in CodecFormats
    /\ adpcm \in (IF encoder THEN CodecStorages(format) ELSE {ZeroAdpcm})
    /\ buffer = NewStream
    /\ resample = NewStream
    /\ ext = NoExt
    /\ out = NewStream
    /\ call = Transfer("new", <<>>, "true", NoTrip)
    /\ obs = NoObs
    /\ ncalls = 0

\* the state after a call with result r of the context that is an encoder or
\* not, on data, whose storage was a
Transferred(op, enc, data, trip, a, r) ==
    /\ ncalls' = ncalls + 1
    /\ obs' = r.obs
    /\ encoder' = enc
    /\ UNCHANGED <<build, format>>
    /\ IF Crashes(r.obs)
       THEN /\ alive' = FALSE
            /\ call' = Transfer(op, data, "crash", trip)
            /\ adpcm' = a
            /\ out' = NewStream
            /\ UNCHANGED <<buffer, resample, ext>>
       ELSE /\ alive' \in (IF r.obs.overrun THEN BOOLEAN ELSE {TRUE})
            /\ call' = Transfer(op, data, Ret(r.ret), trip)
            /\ adpcm' = r.adpcm
            /\ buffer' = r.buffer
            /\ resample' = r.resample
            /\ ext' = r.ext
            /\ out' = r.out

\* the encoder context encodes PCM data into its empty stream
EncodePcm ==
    /\ alive /\ encoder /\ call.op = "new"
    /\ \E data \in CodecPcm, env \in CodecEnvs :
          Transferred("encode", TRUE, data, NoTrip, adpcm,
                      freerdp_dsp_encode(build, TRUE, format, Ctx(adpcm, resample, buffer, ext),
                                         "none", CodecSrcFormat(format), data, out, env))

\* a new decoder context of the same format decodes what the encoder stored
DecodeEncoded ==
    /\ alive /\ encoder /\ call.op = "encode" /\ call.ret = "true"
    /\ \E env \in CodecEnvs :
          Transferred("decode", FALSE, out.data, Trip(call.data, adpcm, obs.hdrOff), ZeroAdpcm,
                      freerdp_dsp_decode(build, FALSE, format,
                                         Ctx(ZeroAdpcm, NewStream, NewStream, NoExt),
                                         "none", out.data, NewStream, env))

\* a decoder context decodes whole blocks
DecodeBlocks ==
    /\ alive /\ ~encoder /\ call.op = "new"
    /\ \E data \in CodecBlocks(format), env \in CodecEnvs :
          Transferred("decode", FALSE, data, NoTrip, adpcm,
                      freerdp_dsp_decode(build, FALSE, format, Ctx(adpcm, resample, buffer, ext),
                                         "none", data, out, env))

NextCodec == EncodePcm \/ DecodeEncoded \/ DecodeBlocks

SpecCodec == InitCodec /\ [][NextCodec]_vars

(***************************************************************************)
(* Properties of the context machine                                       *)
(***************************************************************************)
\* the step is a call of decode on an encoder context or a call of encode on
\* a decoder context
ModeMismatch ==
    \/ call'.op = "decode" /\ encoder
    \/ call'.op = "encode" /\ ~encoder

\* C1: a call of decode on an encoder context, or of encode on a decoder
\* context, returns failure and leaves the mode flag, the target format, the
\* ADPCM state, the scratch buffers and the output buffer as they were
C1_ModeMismatchFails ==
    [][ModeMismatch => /\ call'.ret = "false"
                       /\ UNCHANGED ctxvars
                       /\ out' = call'.out]_vars

\* an encoder context that has encoded IMA ADPCM refused a decode of real data
C1_Witness ==
    /\ encoder
    /\ call.op = "decode" /\ call.nul = "none" /\ call.len > 0
    /\ format.wFormatTag = "DVI_ADPCM"
    /\ adpcm # ZeroAdpcm
    /\ call.ret = "false"
    /\ out = call.out

\* C2: a call of encode, decode or context_reset that returns failure leaves
\* the target format and the ADPCM history of both channels as they were
C2_FailureKeepsState ==
    [][call'.ret = "false" => format' = format /\ adpcm' = adpcm]_vars

\* C3: when encode or decode returns failure, the write position of the
\* output buffer is where it was before the call
C3_FailureKeepsPosition ==
    call.op \in {"encode", "decode"} /\ call.ret = "false"
        => Stream_GetPosition(out) = Stream_GetPosition(call.out)

\* C4: a decode of IMA or MS ADPCM input whose length is not a multiple of
\* the block_align of the target format returns failure
C4_PartialBlockFails ==
    /\ call.op = "decode" /\ call.nul = "none" /\ ~encoder
    /\ format.wFormatTag \in {"ADPCM", "DVI_ADPCM"}
    /\ call.len % format.nBlockAlign # 0
    => call.ret = "false"

\* C5: in a context used for IMA ADPCM the last_step of each channel is
\* within 0..88, in every state and directly after a block header loaded it
C5_StepIndexInRange ==
    format.wFormatTag = "DVI_ADPCM"
        => /\ \A ch \in 0..(format.nChannels - 1) : ima_last_step(adpcm, ch) \in 0..88
           /\ obs.hdrStep \subseteq 0..88

\* C6: in a context used for MS ADPCM every delta written, by a block header
\* of decode or by a per-sample update of decode or encode, is at least 16
C6_DeltaAtLeast16 ==
    format.wFormatTag = "ADPCM" => \A d \in obs.hdrDelta \cup obs.updDelta : d >= 16

\* C7: whenever the MS ADPCM coefficient tables are indexed, by decode or by
\* encode, the predictor of the channel is within 0..6
C7_PredictorInRange == obs.predIdx \subseteq 0..6

\* C11: a context_reset that returns success has stored the format handed
\* over as the target format and has left the mode flag and the ADPCM state
\* of both channels as they were
C11_ResetStoresFormatOnly ==
    [][call'.op = "reset" /\ call'.ret = "true"
          => /\ format' = call'.targetFormat
             /\ encoder' = encoder
             /\ adpcm' = adpcm]_vars

\* a reset to MS ADPCM succeeded on a context whose storage holds the state
\* an earlier call left
C11_Witness ==
    /\ call.op = "reset" /\ call.ret = "true"
    /\ format = call.targetFormat /\ format.wFormatTag = "ADPCM"
    /\ adpcm # ZeroAdpcm

(***************************************************************************)
(* Properties of the per-sample steps                                      *)
(***************************************************************************)
\* C8: after one per-sample update, of decode or of encode, from any storage
\* and for any code: the last_step of IMA is within 0..88 and its last_sample
\* within -32768..32767; the delta of MS is at least 16 and its sample1
\* within -32768..32767
C8_SampleStepBounds ==
    call.ret = "done" =>
        /\ call.op \in {"decode_ima", "encode_ima"} =>
              /\ ima_last_step(adpcm, call.channel) \in 0..88
              /\ ima_last_sample(adpcm, call.channel) \in -32768..32767
        /\ call.op \in {"decode_ms", "encode_ms"} =>
              /\ ms_delta(adpcm, call.channel) >= 16
              /\ adpcm.sample1[call.channel + 1] \in -32768..32767

\* a decode step of IMA that read the table at 136 left last_step at 88
C8_Witness ==
    /\ call.op = "decode_ima" /\ call.ret = "done"
    /\ obs.stepIdx = {136}
    /\ ima_last_step(adpcm, call.channel) = 88

\* C14: from a storage whose last_step is within 0..88, the storage the IMA
\* encode step leaves for a sample is the storage the IMA decode step leaves
\* from the same start for the code the encode step returned
C14_ImaEncodeTracksDecode ==
    [][call'.op = "encode_ima" /\ ima_last_step(adpcm, call'.channel) \in 0..88
          => \E ub \in SampleUb :
                adpcm' = dsp_decode_ima_adpcm_sample(adpcm, call'.channel, call'.value, ub).adpcm]_vars

\* an encode step at step index 88 returned the code 15
C14_Witness ==
    /\ call.op = "encode_ima" /\ call.ret = "done"
    /\ obs.stepIdx = {88}
    /\ call.value = 15

\* C15: from a storage with the predictor within 0..6 and delta at least 16,
\* the sample1, sample2 and delta the MS encode step leaves for a sample are
\* those the MS decode step leaves from the same start for the nibble the
\* encode step returned (a product that leaves the int range has the same
\* outcome in both steps of one build)
C15_MsEncodeTracksDecode ==
    [][/\ call'.op = "encode_ms" /\ call'.ret = "done"
       /\ ms_predictor(adpcm, call'.channel) \in 0..6
       /\ ms_delta(adpcm, call'.channel) >= 16
       => \E ub \in SampleUb :
             /\ adpcm' = freerdp_dsp_encode_ms_adpcm_sample(adpcm, call'.arg, call'.channel, ub).adpcm
             /\ adpcm' = freerdp_dsp_decode_ms_adpcm_sample(adpcm, call'.value, call'.channel, ub).adpcm]_vars

\* an encode step with predictor 5 returned the nibble 8 and raised delta
C15_Witness ==
    /\ call.op = "encode_ms" /\ call.ret = "done"
    /\ obs.predIdx = {5}
    /\ call.value = 8
    /\ ms_delta(adpcm, call.channel) > 16

\* n / d for d > 0 rounded to the nearest integer, a half rounded up:
\* floor(n / d + 1 / 2)
NearestHalfUp(n, d) == (n + d \div 2) \div d

\* C16: in the MS encode step with delta at least 16 the error code is
\* (sample - predicted) / delta rounded to the nearest integer, halves up,
\* for negative and positive differences, then clamped to -8..7; the nibble
\* returned is this code
C16_ErrorCodeRoundsHalfUp ==
    [][/\ call'.op = "encode_ms" /\ call'.ret = "done"
       /\ ms_predictor(adpcm, call'.channel) \in 0..6
       /\ ms_delta(adpcm, call'.channel) >= 16
       => \E ub \in SampleUb :
             call'.value =
                 MsClampError(NearestHalfUp(call'.arg - ms_presample(adpcm, call'.channel, ub),
                                            ms_delta(adpcm, call'.channel))) % 16]_vars

(***************************************************************************)
(* Properties of the resampler                                             *)
(***************************************************************************)
\* n / d rounded to the nearest integer, a half rounded up
RoundHalfUp(n, d) == (2 * n + d) \div (2 * d)

\* the bytes of a frame of the input of the last call, and of its output
SourceFrameBytes == call.srcFormat.nChannels * (IF call.srcFormat.wBitsPerSample > 8 THEN 2 ELSE 1)

TargetFrameBytes == format.nChannels * (IF call.srcFormat.wBitsPerSample > 8 THEN 2 ELSE 1)

\* C9: for S source frames at rate Rs and a target rate Rd the resampler
\* produces round-half-up(S * Rd / Rs) frames
C9_FrameCountRounds ==
    call.ret = "true" =>
        Len(resample.data) =
            TargetFrameBytes * RoundHalfUp((Len(call.data) \div SourceFrameBytes) * format.nSamplesPerSec,
                                           call.srcFormat.nSamplesPerSec)

NearestFrames(i, sframes, srcRate, dstRate) ==
    LET Among(n1, n2) ==
            IF n1 = n2 THEN {n1}
            ELSE {n \in {n1, n2} : \A m \in {n1, n2} :
                     Abs(n * dstRate - i * srcRate) <= Abs(m * dstRate - i * srcRate)}
        Bracket(n1) ==
            Among(n1, IF n1 * dstRate = i * srcRate \/ n1 = sframes - 1 THEN n1 ELSE n1 + 1)
    IN  Bracket(Min((i * srcRate) \div dstRate, sframes - 1))

\* C13: every output byte of target frame i is the byte of the same lane of
\* the source frame nearest to i * src_rate / dst_rate among n1 =
\* floor(i * src_rate / dst_rate), limited to sframes - 1, and n2 = n1 when
\* i lands on a source frame or n1 is the last frame, n1 + 1 otherwise
C13_NearestFrameCopied ==
    call.ret = "true" =>
        \A k \in 0..(Len(resample.data) - 1) :
            \E n \in NearestFrames(k \div TargetFrameBytes, Len(call.data) \div SourceFrameBytes,
                                   call.srcFormat.nSamplesPerSec, format.nSamplesPerSec) :
                resample.data[k + 1] =
                    call.data[n * SourceFrameBytes + ((k % TargetFrameBytes) % SourceFrameBytes) + 1]

\* C23: for every input of at least one source frame and every pair of
\* positive rates, every source byte the resampler reads has an offset below
\* the input size, and it writes exactly rbytes * rframes bytes, which is
\* within the capacity it reserved in the resample buffer
C23_ResampleStaysInside ==
    (call.op = "resample" /\ Len(call.data) >= SourceFrameBytes
        /\ call.srcFormat.nSamplesPerSec > 0 /\ format.nSamplesPerSec > 0)
        => /\ call.ret = "true"
           /\ ~obs.oobRead
           /\ Len(resample.data) = TargetFrameBytes * obs.rframes
           /\ Len(resample.data) <= resample.cap

\* three stereo frames and a byte more at rate 1 were resampled for rate 3:
\* the last target frame lies behind the last source frame
C23_Witness ==
    /\ call.op = "resample" /\ call.ret = "true"
    /\ call.srcFormat.nSamplesPerSec = 1 /\ format.nSamplesPerSec = 3
    /\ call.srcFormat.nChannels = 2 /\ call.srcFormat.wBitsPerSample = 16
    /\ Len(call.data) = 3 * SourceFrameBytes + 1
    /\ obs.rframes = 10 /\ ~obs.oobRead
    /\ Len(resample.data) = 10 * TargetFrameBytes

(***************************************************************************)
(* Properties of the capability query                                      *)
(***************************************************************************)
\* C12: supports_format answers true for the PCM, MS ADPCM and IMA ADPCM tags
\* in both directions under every build, answers false for a tag that is
\* none of the six known ones, and changes nothing of the context
C12_NativeFormatsSupported ==
    [][call'.op = "supports_format"
          => /\ call'.format.wFormatTag \in {"PCM", "ADPCM", "DVI_ADPCM"} => call'.ret = "true"
             /\ call'.format.wFormatTag = "OTHER" => call'.ret = "false"
             /\ UNCHANGED <<ctxvars, out>>]_vars

\* a build without any external codec and without the experimental switch
\* answered true for encoding to MS ADPCM
C12_Witness ==
    /\ call.op = "supports_format" /\ call.format.wFormatTag = "ADPCM" /\ call.encode
    /\ ~build.gsm /\ ~build.lame /\ ~build.faad /\ ~build.faac /\ ~build.experimental
    /\ call.ret = "true"

(***************************************************************************)
(* Properties of the codecs between two contexts                           *)
(***************************************************************************)
\* the decoder context has decoded what the encoder stored
TripDecoded == call.op = "decode" /\ call.trip # NoTrip /\ call.ret = "true"

\* the decoder consumed block headers where the encoder wrote them
HeadersInStep == obs.hdrOff = call.trip.hdrOff

\* the code the encoder's map stores for sample position i of the group whose
\* 8 bytes start at byte base of wire
GroupCode(wire, base, i) ==
    LET At(m) == (wire[base + m[1] + 1] \div (IF m[2] = 4 THEN 16 ELSE 1)) % 16
    IN  At(ima_stereo_encode_map[i + 1])

\* the decode steps of the first n codes of channel ch of that group, taken in
\* the order of their sample positions, from storage a on
RECURSIVE ChannelReplay(_, _, _, _, _)
ChannelReplay(a, wire, base, ch, n) ==
    IF n = 0 THEN [adpcm |-> a, decoded |-> 0, index |-> 0]
    ELSE dsp_decode_ima_adpcm_sample(ChannelReplay(a, wire, base, ch, n - 1).adpcm, ch,
                                     GroupCode(wire, base, 2 * (n - 1) + ch), 0)

\* the storage the two headers at the start of wire load
StereoHeaderState(wire) ==
    set_ima(set_ima(ZeroAdpcm, 0, RdS16(wire, 0), wire[3]), 1, RdS16(wire, 4), wire[7])

SameImaState(a, b) ==
    \A ch \in 0..1 : /\ ima_last_sample(a, ch) = ima_last_sample(b, ch)
                     /\ ima_last_step(a, ch) = ima_last_step(b, ch)

\* C17: for a stereo IMA group the encoder's nibble map and the decoder's
\* permutation are mutual inverses: the byte and nibble the map names for
\* sample position i (channel i mod 2) is the one the decoder turns into
\* output sample i of that channel, and each channel's 8 codes are taken in
\* the same order by both, so that the decoder puts out at position i what
\* the code of position i decodes to and ends in the encoder's state
C17_StereoMapsInverse ==
    TripDecoded /\ format.wFormatTag = "DVI_ADPCM" /\ format.nChannels = 2
                   /\ HeadersInStep /\ Len(call.data) >= 16
        => /\ \A i \in 0..15 :
                 LET m == ima_stereo_encode_map[i + 1]
                 IN  /\ (IF m[1] < 4 THEN 0 ELSE 1) = i % 2
                     /\ ImaStereoDst(m[1], i % 2, m[2] = 4) = 2 * i
                     /\ U16(RdS16(out.data, 2 * i))
                            = ChannelReplay(StereoHeaderState(call.data), call.data, 8,
                                            i % 2, (i \div 2) + 1).decoded
           /\ \A i \in 0..13 :
                 LET m == ima_stereo_encode_map[i + 1]
                     n == ima_stereo_encode_map[i + 3]
                 IN  m[1] < n[1] \/ (m[1] = n[1] /\ m[2] < n[2])
           /\ SameImaState(adpcm, call.trip.adpcm)

\* a block of one stereo group of jumping samples went from an encoder that
\* had encoded before to the decoder, which ended in the encoder's state with
\* both channels away from their start
C17_Witness ==
    /\ TripDecoded /\ format.wFormatTag = "DVI_ADPCM" /\ format.nChannels = 2
    /\ HeadersInStep /\ Len(call.data) = 16 /\ call.trip.pcm = Jumps(36)
    /\ StereoHeaderState(call.data) = ImaUsed
    /\ SameImaState(adpcm, call.trip.adpcm)
    /\ ~SameImaState(adpcm, ImaUsed)
    /\ ima_last_step(adpcm, 0) # 30 /\ ima_last_step(adpcm, 1) # 40

\* C19: for either ADPCM codec and every PCM input, the byte offsets at which
\* the encode call wrote block headers into its output are the byte offsets
\* at which the decode of that output consumed block headers, also when the
\* last block of the output is shorter than nBlockAlign
C19_HeaderOffsetsAgree ==
    call.op = "decode" /\ call.trip # NoTrip => HeadersInStep

\* the PCM bytes before the block whose header, the k-th from 0, is at byte h
\* of the encoded data: a header of 7 bytes a channel carries 2 samples a
\* channel, a data byte carries 2 samples
MsPcmBefore(h, k, channels) == 4 * h - 24 * channels * k

\* the samples of the header at byte h of wire in the order the decoder stores
\* them: sample2 of each channel, then sample1 of each channel
MsHeaderSamples(wire, h, channels) ==
    IF channels > 1
    THEN SubSeq(wire, h + 11, h + 14) \o SubSeq(wire, h + 7, h + 10)
    ELSE SubSeq(wire, h + 6, h + 7) \o SubSeq(wire, h + 4, h + 5)

\* C18: for MS ADPCM, mono and stereo, the decoder puts out for each block the
\* header's sample2 and then sample1 of each channel before the samples of
\* any nibble, and these are the first two PCM samples of each channel the
\* encoder read for that block: the trip reproduces the first two samples a
\* channel of every block, in their order
C18_HeaderSamplesReturn ==
    call.op = "decode" /\ call.trip # NoTrip /\ format.wFormatTag = "ADPCM"
        => \A k \in 1..Len(call.trip.hdrOff) :
              LET h    == call.trip.hdrOff[k]
                  from == MsPcmBefore(h, k - 1, format.nChannels)
                  to   == from + 4 * format.nChannels
              IN  /\ Len(out.data) >= to
                  /\ SubSeq(out.data, from + 1, to) = MsHeaderSamples(call.data, h, format.nChannels)
                  /\ SubSeq(out.data, from + 1, to) = SubSeq(call.trip.pcm, from + 1, to)

\* the same of the trips in which the decoder consumed the headers where the
\* encoder wrote them
HeaderSamplesReturnInStep == HeadersInStep => C18_HeaderSamplesReturn

\* such a trip of three stereo blocks
ThreeBlocksInStep ==
    /\ TripDecoded /\ format.wFormatTag = "ADPCM" /\ format.nChannels = 2
    /\ HeadersInStep /\ Len(obs.hdrOff) = 3

\* C20: for IMA and MS ADPCM decode, mono and stereo, and every input whose
\* length is a positive multiple of nBlockAlign (nBlockAlign >= 1), every
\* byte read lies inside the input, the count of bytes left never passes
\* below zero and the loop ends with the count at zero
C20_DecodeStaysInside ==
    (call.op = "decode" /\ format.nBlockAlign >= 1
        /\ Len(call.data) > 0 /\ Len(call.data) % format.nBlockAlign = 0)
        => ~obs.runaway /\ call.ret = "true" /\ obs.left = 0

\* the same of the formats whose block holds, behind its header, a positive
\* number of the bytes one iteration of the loop takes
BlockHoldsData ==
    LET header == (IF format.wFormatTag = "ADPCM" THEN 7 ELSE 4) * format.nChannels
        taken  == IF format.nChannels = 1 THEN 1
                  ELSE IF format.wFormatTag = "ADPCM" THEN 2 ELSE 8
    IN  format.nBlockAlign > header /\ (format.nBlockAlign - header) % taken = 0

DecodeStaysInsideWithData == BlockHoldsData => C20_DecodeStaysInside

\* two such blocks were decoded
TwoBlocksWithData ==
    /\ call.op = "decode" /\ BlockHoldsData /\ Len(call.data) = 2 * format.nBlockAlign
    /\ Len(obs.hdrOff) = 2 /\ call.ret = "true"

\* C22: a successful IMA or MS ADPCM encode call consumes every complete
\* sample group of its PCM input (IMA: 4 bytes mono, 32 bytes stereo; MS: 4
\* bytes): of an input that is a whole number of groups nothing is left
\* unencoded
GroupBytes == IF format.wFormatTag = "DVI_ADPCM" /\ format.nChannels > 1 THEN 32 ELSE 4

C22_EncodeConsumesGroups ==
    (call.op = "encode" /\ call.ret = "true" /\ Len(call.data) % GroupBytes = 0)
        => obs.left = 0

\* C24: in MS ADPCM decode, for every 16-bit header delta and every sequence
\* of nibbles within a block, the products delta * adaptation_table[nibble]
\* and nibble * delta stay within the signed 32-bit range, so that delta
\* never wraps
C24_DeltaProductsInRange ==
    (call.op = "decode" /\ format.wFormatTag = "ADPCM"
        /\ \A d \in obs.hdrDelta : d \in -32768..32767)
        => ~obs.deltaOvf

(***************************************************************************)
(* Properties of the buffers of the context machine                        *)
(***************************************************************************)
\* C21: IMA and MS ADPCM decode never store behind the capacity of the output
\* stream, at whatever position the stream is when the call starts, a
\* position left by earlier writes included
C21_DecodeWithinCapacity ==
    call.op = "decode" /\ format.wFormatTag \in {"ADPCM", "DVI_ADPCM"} => ~obs.overrun
=============================================================================
